---- MODULE Spec2Model ----
(***************************************************************************)
(* A model of the two graph classes of the repository:                     *)
(*   DirectedGraph   (src/d_graph.py)  - adjacency matrix, integer ids     *)
(*   UndirectedGraph (src/ud_graph.py) - adjacency list (ordered dict)     *)
(* A behaviour is one graph object driven by a caller: every method call   *)
(* is one action (the whole method body), followed by a Return step in     *)
(* which the caller takes the result.  The caller is either free (any      *)
(* call, arguments from small sets) or the scripted __main__ example of    *)
(* the class.                                                              *)
(*                                                                         *)
(* Python values: a list is a sequence (Python index i is TLA+ index i+1), *)
(* an ordered dict is a sequence of [key, val] records in insertion order, *)
(* an optional argument is <<>> (None) or <<x>>, a returned value is a     *)
(* record [tag, val] and a raised exception is [tag |-> "raise", ...].     *)
(* The one-letter vertex names of UndirectedGraph are modelled by their    *)
(* position in the alphabet, which preserves the order heapq compares.     *)
(***************************************************************************)
EXTENDS Integers, Sequences, FiniteSets, TLC

VARIABLES
    kind,        \* "directed" or "undirected": the class of the object
    mode,        \* "free" or "script": who drives the object
    pc,          \* number of scripted mutations already performed
    v_count,     \* DirectedGraph.v_count
    adj_matrix,  \* DirectedGraph.adj_matrix
    adj_list,    \* UndirectedGraph.adj_list
    before,      \* the object's fields when the current call started
    call,        \* the call in progress: [op, args]; op = "idle" between calls
    ret,         \* what the call returned (or raised)
    run          \* where a call that is followed loop by loop stands

vars == <<kind, mode, pc, v_count, adj_matrix, adj_list, before, call, ret, run>>

-----------------------------------------------------------------------------
(* Bounds of the free caller *)

MaxSize == 6     \* size of the graph a free caller builds: vertices plus
                 \* edges, a weighted edge counting for its weight
MaxU == 3        \* distinct vertex names a free caller uses on an UndirectedGraph
MaxPathLen == 2  \* length of the paths given to is_valid_path
MaxRunSize == 5  \* size of the graphs on which a free caller's calls are
                 \* followed loop by loop

\* weights offered to add_edge: one that is rejected, two that are accepted
WeightArgs == {0, 1, 2}

-----------------------------------------------------------------------------
(* Python values *)

RNone == [tag |-> "None", val |-> <<>>]
RBool(b) == [tag |-> "bool", val |-> b]
RInt(n) == [tag |-> "int", val |-> n]
RList(s) == [tag |-> "list", val |-> s]
RRaise(e) == [tag |-> "raise", val |-> e]

Idle == [op |-> "idle", args |-> <<>>]

\* range(n) as a sequence: 0, 1, ..., n-1
PyRange(n) == [k \in 1..n |-> k - 1]

\* range(n - 1, -1, -1) as a sequence: n-1, ..., 0
PyRangeDown(n) == [k \in 1..n |-> n - k]

\* lst[i] is defined for -len <= i < len; a negative i counts from the end
PyIndexOK(lst, i) == -Len(lst) <= i /\ i < Len(lst)
PyIndex(lst, i) == IF i >= 0 THEN lst[i + 1] ELSE lst[Len(lst) + i + 1]

\* x in lst
PyIn(x, lst) == \E k \in 1..Len(lst) : lst[k] = x

\* lst.remove(x) for x in lst: drops the first occurrence
PyRemove(lst, x) ==
    LET k == CHOOSE j \in 1..Len(lst) :
                 lst[j] = x /\ \A h \in 1..(j - 1) : lst[h] # x
    IN SubSeq(lst, 1, k - 1) \o SubSeq(lst, k + 1, Len(lst))

\* v_end not in seen, where v_end is <<>> for None
NotInSeen(v_end, seen) == IF v_end = <<>> THEN TRUE ELSE v_end[1] \notin seen

SeqToSet(s) == {s[k] : k \in 1..Len(s)}

-----------------------------------------------------------------------------
(* DirectedGraph: a graph g is [v_count, adj_matrix] *)

D_new == [v_count |-> 0, adj_matrix |-> <<>>]

D_add_vertex(g) ==
    LET n == g.v_count + 1
        m == Append(g.adj_matrix, [j \in 1..n |-> 0])
    IN [v_count |-> n,
        adj_matrix |-> [i \in 1..Len(m) |->
                           IF i <= Len(m) - 1 THEN Append(m[i], 0) ELSE m[i]]]

D_in_range(g, v) == 0 <= v /\ v < g.v_count

\* mutant: the guard on the weight is dropped
D_add_edge_any_weight(g, src, dst, weight) ==
    IF src = dst THEN g
    ELSE IF ~D_in_range(g, src) \/ ~D_in_range(g, dst) THEN g
    ELSE [g EXCEPT !.adj_matrix[src + 1][dst + 1] = weight]

\* mutant: an edge that is already there keeps its weight
D_add_edge_keep(g, src, dst, weight) ==
    IF weight < 1 THEN g
    ELSE IF src = dst THEN g
    ELSE IF ~D_in_range(g, src) \/ ~D_in_range(g, dst) THEN g
    ELSE IF g.adj_matrix[src + 1][dst + 1] # 0 THEN g
    ELSE [g EXCEPT !.adj_matrix[src + 1][dst + 1] = weight]

D_add_edge(g, src, dst, weight) ==
    IF weight < 1 THEN g
    ELSE IF src = dst THEN g
    ELSE IF ~D_in_range(g, src) \/ ~D_in_range(g, dst) THEN g
    ELSE [g EXCEPT !.adj_matrix[src + 1][dst + 1] = weight]

D_remove_edge(g, src, dst) ==
    IF ~D_in_range(g, src) \/ ~D_in_range(g, dst) THEN g
    ELSE [g EXCEPT !.adj_matrix[src + 1][dst + 1] = 0]

\* the edges of row i (a Python index), columns from j on
RECURSIVE D_row_edges(_, _, _)
D_row_edges(g, i, j) ==
    IF j >= Len(g.adj_matrix[i + 1]) THEN <<>>
    ELSE (IF g.adj_matrix[i + 1][j + 1] # 0
             THEN <<<<i, j, g.adj_matrix[i + 1][j + 1]>>>>
             ELSE <<>>)
         \o D_row_edges(g, i, j + 1)

RECURSIVE D_edges_from(_, _)
D_edges_from(g, i) ==
    IF i >= Len(g.adj_matrix) THEN <<>>
    ELSE D_row_edges(g, i, 0) \o D_edges_from(g, i + 1)

D_get_edges(g) == D_edges_from(g, 0)

\* the loop of is_valid_path at index i (1 <= i): a subscript out of the
\* list's range raises IndexError, a negative one counts from the end
RECURSIVE D_path_loop(_, _, _)
D_path_loop(g, path, i) ==
    IF i >= Len(path) THEN RBool(TRUE)
    ELSE LET cur == path[i + 1]
             prev == path[i]
         IN IF ~PyIndexOK(g.adj_matrix, prev) THEN RRaise("IndexError")
            ELSE IF ~PyIndexOK(PyIndex(g.adj_matrix, prev), cur)
                    THEN RRaise("IndexError")
            ELSE IF PyIndex(PyIndex(g.adj_matrix, prev), cur) = 0
                    THEN RBool(FALSE)
            ELSE D_path_loop(g, path, i + 1)

D_is_valid_path(g, path) ==
    IF Len(path) = 0 \/ (Len(path) = 1 /\ D_in_range(g, path[1]))
        THEN RBool(TRUE)
    ELSE IF Len(path) = 1 /\ ~D_in_range(g, path[1]) THEN RBool(FALSE)
    ELSE D_path_loop(g, path, 1)

\* the out-neighbours of item, in the order given by the index sequence idx
D_adjacent(g, item, idx) ==
    SelectSeq(idx, LAMBDA i : g.adj_matrix[item + 1][i + 1] # 0)

\* mutant: the adjacent vertices are pushed for a vertex already seen too
D_dfs_step_push_seen(g, st) ==
    LET item == st.stack[Len(st.stack)]
        rest == SubSeq(st.stack, 1, Len(st.stack) - 1)
    IN [stack |-> rest \o D_adjacent(g, item,
                             PyRangeDown(Len(g.adj_matrix[item + 1]))),
        seen |-> st.seen \cup {item},
        vertices |-> IF item \notin st.seen THEN Append(st.vertices, item)
                                            ELSE st.vertices]

\* mutant: the adjacent vertices are pushed in ascending order
D_dfs_step_ascending(g, st) ==
    LET item == st.stack[Len(st.stack)]
        rest == SubSeq(st.stack, 1, Len(st.stack) - 1)
    IN IF item \notin st.seen
          THEN [stack |-> rest \o D_adjacent(g, item,
                                   PyRange(Len(g.adj_matrix[item + 1]))),
                seen |-> st.seen \cup {item},
                vertices |-> Append(st.vertices, item)]
          ELSE [st EXCEPT !.stack = rest]

\* one iteration of the while loop of dfs; st is [stack, seen, vertices]
D_dfs_step(g, st) ==
    LET item == st.stack[Len(st.stack)]
        rest == SubSeq(st.stack, 1, Len(st.stack) - 1)
    IN IF item \notin st.seen
          THEN [stack |-> rest \o D_adjacent(g, item,
                                   PyRangeDown(Len(g.adj_matrix[item + 1]))),
                seen |-> st.seen \cup {item},
                vertices |-> Append(st.vertices, item)]
          ELSE [st EXCEPT !.stack = rest]

RECURSIVE D_dfs_loop(_, _, _)
D_dfs_loop(g, v_end, st) ==
    IF st.stack # <<>> /\ NotInSeen(v_end, st.seen)
        THEN D_dfs_loop(g, v_end, D_dfs_step(g, st))
        ELSE st.vertices

\* mutant: the loop does not look at v_end
D_dfs_no_end(g, v_start, v_end) ==
    IF ~D_in_range(g, v_start) THEN <<>>
    ELSE D_dfs_loop(g, <<>>,
                    [stack |-> <<v_start>>, seen |-> {}, vertices |-> <<>>])

D_dfs(g, v_start, v_end) ==
    IF ~D_in_range(g, v_start) THEN <<>>
    ELSE D_dfs_loop(g, v_end,
                    [stack |-> <<v_start>>, seen |-> {}, vertices |-> <<>>])

\* mutant: the adjacent vertices are enqueued in descending order
D_bfs_step_descending(g, st) ==
    LET item == Head(st.queue)
        rest == Tail(st.queue)
    IN IF item \notin st.seen
          THEN [queue |-> rest \o D_adjacent(g, item,
                                   PyRangeDown(Len(g.adj_matrix[item + 1]))),
                seen |-> st.seen \cup {item},
                vertices |-> Append(st.vertices, item)]
          ELSE [st EXCEPT !.queue = rest]

\* one iteration of the while loop of bfs; st is [queue, seen, vertices]
D_bfs_step(g, st) ==
    LET item == Head(st.queue)
        rest == Tail(st.queue)
    IN IF item \notin st.seen
          THEN [queue |-> rest \o D_adjacent(g, item,
                                   PyRange(Len(g.adj_matrix[item + 1]))),
                seen |-> st.seen \cup {item},
                vertices |-> Append(st.vertices, item)]
          ELSE [st EXCEPT !.queue = rest]

RECURSIVE D_bfs_loop(_, _, _)
D_bfs_loop(g, v_end, st) ==
    IF st.queue # <<>> /\ NotInSeen(v_end, st.seen)
        THEN D_bfs_loop(g, v_end, D_bfs_step(g, st))
        ELSE st.vertices

D_bfs(g, v_start, v_end) ==
    IF ~D_in_range(g, v_start) THEN <<>>
    ELSE D_bfs_loop(g, v_end,
                    [queue |-> <<v_start>>, seen |-> {}, vertices |-> <<>>])

\* the for loop of detect_cycle over the row of cur_vertex, from column i on:
\* [found, stack], found when the loop returns True
RECURSIVE D_detect_scan(_, _, _, _, _, _)
D_detect_scan(g, vertex, cur_vertex, visited, stack, i) ==
    IF i >= Len(g.adj_matrix[cur_vertex + 1])
        THEN [found |-> FALSE, stack |-> stack]
    ELSE IF g.adj_matrix[cur_vertex + 1][i + 1] # 0 /\ i \notin visited
        THEN D_detect_scan(g, vertex, cur_vertex, visited, Append(stack, i), i + 1)
    ELSE IF g.adj_matrix[cur_vertex + 1][i + 1] # 0 /\ i = vertex
        THEN [found |-> TRUE, stack |-> stack]
    ELSE D_detect_scan(g, vertex, cur_vertex, visited, stack, i + 1)

\* one iteration of the while loop of detect_cycle; st is [stack, visited,
\* found], found when the iteration returns True
D_detect_step(g, vertex, st) ==
    LET cur_vertex == st.stack[Len(st.stack)]
        rest == SubSeq(st.stack, 1, Len(st.stack) - 1)
    IN IF cur_vertex \notin st.visited
          THEN LET scan == D_detect_scan(g, vertex, cur_vertex,
                                         st.visited \cup {cur_vertex}, rest, 0)
               IN [stack |-> scan.stack,
                   visited |-> st.visited \cup {cur_vertex},
                   found |-> scan.found]
          ELSE [st EXCEPT !.stack = rest]

\* the while loop of detect_cycle
RECURSIVE D_detect_loop(_, _, _, _)
D_detect_loop(g, vertex, stack, visited) ==
    IF stack = <<>> THEN FALSE
    ELSE LET cur_vertex == stack[Len(stack)]
             rest == SubSeq(stack, 1, Len(stack) - 1)
         IN IF cur_vertex \notin visited
               THEN LET scan == D_detect_scan(g, vertex, cur_vertex,
                                              visited \cup {cur_vertex}, rest, 0)
                    IN IF scan.found THEN TRUE
                       ELSE D_detect_loop(g, vertex, scan.stack,
                                          visited \cup {cur_vertex})
               ELSE D_detect_loop(g, vertex, rest, visited)

D_detect_cycle(g, vertex) == D_detect_loop(g, vertex, <<vertex>>, {})

RECURSIVE D_has_cycle_from(_, _)
D_has_cycle_from(g, i) ==
    IF i >= Len(g.adj_matrix) THEN FALSE
    ELSE IF D_detect_cycle(g, i) THEN TRUE
    ELSE D_has_cycle_from(g, i + 1)

\* mutant: only vertex 0 is tried as the root
D_has_cycle_root0(g) == Len(g.adj_matrix) > 0 /\ D_detect_cycle(g, 0)

D_has_cycle(g) == D_has_cycle_from(g, 0)

\* the body of dijkstra is "pass": the call returns None
D_dijkstra(g, src) == RNone

\* DirectedGraph(start_edges): the vertices 0..max id, then the edges in order
RECURSIVE D_add_vertices(_, _)
D_add_vertices(g, n) ==
    IF n = 0 THEN g ELSE D_add_vertices(D_add_vertex(g), n - 1)

RECURSIVE D_add_edges(_, _)
D_add_edges(g, edges) ==
    IF edges = <<>> THEN g
    ELSE D_add_edges(D_add_edge(g, edges[1][1], edges[1][2], edges[1][3]),
                     Tail(edges))

RECURSIVE D_max_id(_, _)
D_max_id(edges, v) ==
    IF edges = <<>> THEN v
    ELSE LET u == IF edges[1][1] > v THEN edges[1][1] ELSE v
             w == IF edges[1][2] > u THEN edges[1][2] ELSE u
         IN D_max_id(Tail(edges), w)

D_init(start_edges) ==
    D_add_edges(D_add_vertices(D_new, D_max_id(start_edges, 0) + 1), start_edges)

\* the has_cycle example of __main__
D_example_edges ==
    << <<0, 1, 10>>, <<4, 0, 12>>, <<1, 4, 15>>, <<4, 3, 3>>,
       <<3, 1, 5>>, <<2, 1, 23>>, <<3, 2, 7>> >>

D_script ==
    << [op |-> "remove_edge", args |-> <<3, 1>>],
       [op |-> "remove_edge", args |-> <<4, 0>>],
       [op |-> "remove_edge", args |-> <<3, 2>>],
       [op |-> "add_edge", args |-> <<4, 3, 1>>],
       [op |-> "add_edge", args |-> <<2, 3, 1>>],
       [op |-> "add_edge", args |-> <<1, 3, 1>>],
       [op |-> "add_edge", args |-> <<4, 0, 1>>] >>

-----------------------------------------------------------------------------
(* UndirectedGraph: adj_list is an ordered dict, modelled as the sequence  *)
(* of its items [key, val] in insertion order                              *)

U_new == <<>>

\* key in d
U_has(d, key) == \E k \in 1..Len(d) : d[k].key = key

\* d[key], for key in d
U_get(d, key) == d[CHOOSE k \in 1..Len(d) : d[k].key = key].val

\* d[key] = val: a new key goes to the end, an old one keeps its place
U_set(d, key, val) ==
    IF U_has(d, key)
        THEN [k \in 1..Len(d) |-> IF d[k].key = key THEN [d[k] EXCEPT !.val = val]
                                  ELSE d[k]]
        ELSE Append(d, [key |-> key, val |-> val])

\* d.pop(key)
U_pop(d, key) == SelectSeq(d, LAMBDA e : e.key # key)

U_add_vertex(d, v) ==
    IF U_has(d, v) THEN d ELSE U_set(d, v, <<>>)

U_add_edge(d, u, v) ==
    IF u = v \/ (U_has(d, v) /\ PyIn(u, U_get(d, v))) THEN d
    ELSE LET d1 == IF ~U_has(d, u) THEN U_set(d, u, <<>>) ELSE d
             d2 == IF ~U_has(d1, v) THEN U_set(d1, v, <<>>) ELSE d1
             d3 == U_set(d2, v, Append(U_get(d2, v), u))
         IN U_set(d3, u, Append(U_get(d3, u), v))

\* remove_edge(v, u): [d, ret]; list.remove raises ValueError when the
\* value is not in the list, after the first list has been changed
U_remove_edge(d, v, u) ==
    IF ~U_has(d, v) \/ ~U_has(d, u) \/ ~PyIn(v, U_get(d, u))
        THEN [d |-> d, ret |-> RNone]
    ELSE LET d1 == U_set(d, u, PyRemove(U_get(d, u), v))
         IN IF ~PyIn(u, U_get(d1, v))
               THEN [d |-> d1, ret |-> RRaise("ValueError")]
               ELSE [d |-> U_set(d1, v, PyRemove(U_get(d1, v), u)),
                     ret |-> RNone]

\* the for loop of remove_vertex over the keys that are left, from item k on
RECURSIVE U_strip(_, _, _)
U_strip(d, v, k) ==
    IF k > Len(d) THEN d
    ELSE IF PyIn(v, d[k].val)
            THEN U_strip([d EXCEPT ![k].val = PyRemove(d[k].val, v)], v, k + 1)
            ELSE U_strip(d, v, k + 1)

\* mutant: the vertex is popped and the neighbour lists are left alone
U_remove_vertex_no_strip(d, v) ==
    IF ~U_has(d, v) THEN d ELSE U_pop(d, v)

U_remove_vertex(d, v) ==
    IF ~U_has(d, v) THEN d ELSE U_strip(U_pop(d, v), v, 1)

\* the inner for loop of get_edges over the values of key, from index i on
RECURSIVE U_key_edges(_, _, _, _)
U_key_edges(key, vals, seen, i) ==
    IF i > Len(vals) THEN <<>>
    ELSE (IF vals[i] \notin seen THEN << <<key, vals[i]>> >> ELSE <<>>)
         \o U_key_edges(key, vals, seen, i + 1)

\* the outer for loop of get_edges, from item k on
RECURSIVE U_edges_from(_, _, _)
U_edges_from(d, seen, k) ==
    IF k > Len(d) THEN <<>>
    ELSE U_key_edges(d[k].key, d[k].val, seen \cup {d[k].key}, 1)
         \o U_edges_from(d, seen \cup {d[k].key}, k + 1)

\* mutant: the set of keys already handled is not consulted
U_get_edges_no_seen(d) ==
    LET EdgesOf(k) == [i \in 1..Len(d[k].val) |-> <<d[k].key, d[k].val[i]>>]
        F[k \in 1..(Len(d) + 1)] ==
            IF k > Len(d) THEN <<>> ELSE EdgesOf(k) \o F[k + 1]
    IN F[1]

U_get_edges(d) == U_edges_from(d, {}, 1)

\* the least value of a non-empty list
U_min(lst) == CHOOSE x \in SeqToSet(lst) : \A y \in SeqToSet(lst) : x <= y

\* heapsort: the least value of the heap is popped len(lst) times
RECURSIVE U_heapsort(_)
U_heapsort(lst) ==
    IF lst = <<>> THEN <<>>
    ELSE <<U_min(lst)>> \o U_heapsort(PyRemove(lst, U_min(lst)))

\* the values of a list popped from its end, in the order they are popped
U_popped(lst) == [k \in 1..Len(lst) |-> lst[Len(lst) + 1 - k]]

\* one iteration of the while loop of dfs; st is [stack, seen, vertices]
U_dfs_step(d, st) ==
    LET item == st.stack[Len(st.stack)]
        rest == SubSeq(st.stack, 1, Len(st.stack) - 1)
    IN IF item \notin st.seen
          THEN [stack |-> rest \o U_popped(U_heapsort(U_get(d, item))),
                seen |-> st.seen \cup {item},
                vertices |-> Append(st.vertices, item)]
          ELSE [st EXCEPT !.stack = rest]

RECURSIVE U_dfs_loop(_, _, _)
U_dfs_loop(d, v_end, st) ==
    IF Len(st.stack) > 0 /\ NotInSeen(v_end, st.seen)
        THEN U_dfs_loop(d, v_end, U_dfs_step(d, st))
        ELSE st.vertices

U_dfs(d, v_start, v_end) ==
    IF ~U_has(d, v_start) THEN <<>>
    ELSE U_dfs_loop(d, v_end,
                    [stack |-> <<v_start>>, seen |-> {}, vertices |-> <<>>])

\* one iteration of the while loop of bfs; st is [queue, seen, vertices]
U_bfs_step(d, st) ==
    LET item == Head(st.queue)
        rest == Tail(st.queue)
    IN IF item \notin st.seen
          THEN [queue |-> rest \o U_heapsort(U_get(d, item)),
                seen |-> st.seen \cup {item},
                vertices |-> Append(st.vertices, item)]
          ELSE [st EXCEPT !.queue = rest]

RECURSIVE U_bfs_loop(_, _, _)
U_bfs_loop(d, v_end, st) ==
    IF Len(st.queue) > 0 /\ NotInSeen(v_end, st.seen)
        THEN U_bfs_loop(d, v_end, U_bfs_step(d, st))
        ELSE st.vertices

U_bfs(d, v_start, v_end) ==
    IF ~U_has(d, v_start) THEN <<>>
    ELSE U_bfs_loop(d, v_end,
                    [queue |-> <<v_start>>, seen |-> {}, vertices |-> <<>>])

\* the for loop of count_connected_components, from item k on
RECURSIVE U_count_from(_, _, _, _)
U_count_from(d, vertices, count, k) ==
    IF k > Len(d) THEN count
    ELSE IF d[k].key \notin vertices
            THEN U_count_from(d, vertices \cup SeqToSet(U_dfs(d, d[k].key, <<>>)),
                              count + 1, k + 1)
            ELSE U_count_from(d, vertices, count, k + 1)

\* mutant: the vertices found by dfs are not added to the visited set
U_count_no_union(d) == Len(d)

U_count_connected_components(d) == U_count_from(d, {}, 0, 1)

\* the body of has_cycle is its docstring: the call returns None
U_has_cycle(d) == RNone

\* UndirectedGraph(start_edges): add_edge for each pair, in order
RECURSIVE U_init(_, _)
U_init(d, start_edges) ==
    IF start_edges = <<>> THEN d
    ELSE U_init(U_add_edge(d, start_edges[1][1], start_edges[1][2]),
                Tail(start_edges))

\* the vertex names of the examples, in alphabetical order
U_names == <<"A", "B", "C", "D", "E", "F", "G", "H", "Q">>

\* the vertex whose name is s
U_v(s) == CHOOSE k \in 1..Len(U_names) : U_names[k] = s

\* the count_connected_components example of __main__
U_example_edges ==
    << <<"A", "E">>, <<"A", "C">>, <<"B", "E">>, <<"C", "E">>, <<"C", "D">>,
       <<"C", "B">>, <<"B", "D">>, <<"E", "D">>, <<"B", "H">>, <<"Q", "G">>,
       <<"F", "G">> >>

U_example ==
    U_init(U_new, [k \in 1..Len(U_example_edges) |->
                      <<U_v(U_example_edges[k][1]), U_v(U_example_edges[k][2])>>])

U_test_cases ==
    << <<"add", "Q", "H">>, <<"remove", "F", "G">>, <<"remove", "G", "Q">>,
       <<"remove", "H", "Q">>, <<"remove", "A", "E">>, <<"remove", "C", "A">>,
       <<"remove", "E", "B">>, <<"remove", "C", "E">>, <<"remove", "D", "E">>,
       <<"remove", "B", "C">>, <<"add", "E", "A">>, <<"add", "E", "F">>,
       <<"add", "G", "Q">>, <<"add", "A", "C">>, <<"add", "D", "Q">>,
       <<"add", "E", "G">>, <<"add", "Q", "H">>, <<"remove", "C", "D">>,
       <<"remove", "B", "D">>, <<"remove", "Q", "G">> >>

U_script ==
    [k \in 1..Len(U_test_cases) |->
        [op |-> IF U_test_cases[k][1] = "add" THEN "add_edge" ELSE "remove_edge",
         args |-> <<U_v(U_test_cases[k][2]), U_v(U_test_cases[k][3])>>]]

-----------------------------------------------------------------------------
(* The object and its caller *)

D_self == [v_count |-> v_count, adj_matrix |-> adj_matrix]

Snapshot == [v_count |-> v_count, adj_matrix |-> adj_matrix, adj_list |-> adj_list]

Script == IF kind = "directed" THEN D_script ELSE U_script

\* the caller may make the mutating call c now
MayMutate(c) ==
    /\ call.op = "idle"
    /\ \/ mode = "free"
       \/ mode = "script" /\ pc < Len(Script) /\ Script[pc + 1] = c

\* the caller may make a query now
MayQuery == call.op = "idle"

\* vertex ids a caller passes to a DirectedGraph: one below the range, the
\* ids in range, one above
D_ids == -1..v_count

\* the size of a graph
RECURSIVE SumWeights(_)
SumWeights(edges) ==
    IF edges = <<>> THEN 0 ELSE edges[1][3] + SumWeights(Tail(edges))

D_size(g) == g.v_count + SumWeights(D_get_edges(g))
U_size(d) == Len(d) + Len(U_get_edges(d))

\* a free caller keeps the graph within MaxSize
D_within(g) == mode = "free" => D_size(g) <= MaxSize
U_within(d) == mode = "free" => U_size(d) <= MaxSize

\* vertex names a free caller creates, and those any caller asks about
U_ids == 1..(IF mode = "script" THEN Len(U_names) ELSE MaxU)
U_query_ids == 1..(IF mode = "script" THEN Len(U_names) + 1 ELSE MaxU + 1)

\* the paths of at most n ids
Paths(ids, n) == UNION {[1..k -> ids] : k \in 0..n}

\* v_end: None or an id
Ends(ids) == {<<>>} \cup {<<e>> : e \in ids}

\* no call is being followed loop by loop
NoRun == [at |-> "none", iters |-> 0, st |-> <<>>]

Init ==
    /\ kind \in {"directed", "undirected"}
    /\ mode \in {"free", "script"}
    /\ pc = 0
    /\ LET g == IF kind = "directed" /\ mode = "script"
                   THEN D_init(D_example_edges) ELSE D_new
       IN v_count = g.v_count /\ adj_matrix = g.adj_matrix
    /\ adj_list = IF kind = "undirected" /\ mode = "script" THEN U_example ELSE U_new
    /\ before = [v_count |-> v_count, adj_matrix |-> adj_matrix, adj_list |-> adj_list]
    /\ call = Idle
    /\ ret = RNone
    /\ run = NoRun

\* a mutating call on the DirectedGraph that leaves it as g and returns None
D_mutated(c, g) ==
    /\ v_count' = g.v_count
    /\ adj_matrix' = g.adj_matrix
    /\ before' = Snapshot
    /\ call' = c
    /\ ret' = RNone
    /\ pc' = IF mode = "script" THEN pc + 1 ELSE pc
    /\ UNCHANGED <<kind, mode, adj_list, run>>

\* a mutating call on the UndirectedGraph that leaves adj_list as d
U_mutated(c, d, r) ==
    /\ adj_list' = d
    /\ before' = Snapshot
    /\ call' = c
    /\ ret' = r
    /\ pc' = IF mode = "script" THEN pc + 1 ELSE pc
    /\ UNCHANGED <<kind, mode, v_count, adj_matrix, run>>

\* a call that changes no field and returns r
Queried(c, r) ==
    /\ MayQuery
    /\ before' = Snapshot
    /\ call' = c
    /\ ret' = r
    /\ UNCHANGED <<kind, mode, pc, v_count, adj_matrix, adj_list, run>>

DAddVertex ==
    /\ kind = "directed"
    /\ MayMutate([op |-> "add_vertex", args |-> <<>>])
    /\ D_within(D_add_vertex(D_self))
    /\ D_mutated([op |-> "add_vertex", args |-> <<>>], D_add_vertex(D_self))

DAddEdge ==
    /\ kind = "directed"
    /\ \E src \in D_ids, dst \in D_ids, weight \in WeightArgs :
          LET c == [op |-> "add_edge", args |-> <<src, dst, weight>>]
              g == D_add_edge(D_self, src, dst, weight)
          IN /\ MayMutate(c)
             /\ D_within(g)
             /\ D_mutated(c, g)

DRemoveEdge ==
    /\ kind = "directed"
    /\ \E src \in D_ids, dst \in D_ids :
          LET c == [op |-> "remove_edge", args |-> <<src, dst>>]
          IN /\ MayMutate(c)
             /\ D_mutated(c, D_remove_edge(D_self, src, dst))

DGetEdges ==
    /\ kind = "directed"
    /\ Queried([op |-> "get_edges", args |-> <<>>], RList(D_get_edges(D_self)))

DIsValidPath ==
    /\ kind = "directed"
    /\ \E path \in Paths(D_ids, MaxPathLen) :
          Queried([op |-> "is_valid_path", args |-> <<path>>],
                  D_is_valid_path(D_self, path))

DDfs ==
    /\ kind = "directed"
    /\ \E v_start \in D_ids, v_end \in Ends(D_ids) :
          Queried([op |-> "dfs", args |-> <<v_start, v_end>>],
                  RList(D_dfs(D_self, v_start, v_end)))

DBfs ==
    /\ kind = "directed"
    /\ \E v_start \in D_ids, v_end \in Ends(D_ids) :
          Queried([op |-> "bfs", args |-> <<v_start, v_end>>],
                  RList(D_bfs(D_self, v_start, v_end)))

DHasCycle ==
    /\ kind = "directed"
    /\ Queried([op |-> "has_cycle", args |-> <<>>], RBool(D_has_cycle(D_self)))

DDijkstra ==
    /\ kind = "directed"
    /\ \E src \in D_ids :
          Queried([op |-> "dijkstra", args |-> <<src>>], D_dijkstra(D_self, src))

UAddVertex ==
    /\ kind = "undirected"
    /\ \E v \in U_ids :
          LET c == [op |-> "add_vertex", args |-> <<v>>]
          IN /\ MayMutate(c)
             /\ U_within(U_add_vertex(adj_list, v))
             /\ U_mutated(c, U_add_vertex(adj_list, v), RNone)

UAddEdge ==
    /\ kind = "undirected"
    /\ \E u \in U_ids, v \in U_ids :
          LET c == [op |-> "add_edge", args |-> <<u, v>>]
              d == U_add_edge(adj_list, u, v)
          IN /\ MayMutate(c)
             /\ U_within(d)
             /\ U_mutated(c, d, RNone)

URemoveEdge ==
    /\ kind = "undirected"
    /\ \E v \in U_query_ids, u \in U_query_ids :
          LET c == [op |-> "remove_edge", args |-> <<v, u>>]
              r == U_remove_edge(adj_list, v, u)
          IN /\ MayMutate(c)
             /\ U_mutated(c, r.d, r.ret)

URemoveVertex ==
    /\ kind = "undirected"
    /\ \E v \in U_query_ids :
          LET c == [op |-> "remove_vertex", args |-> <<v>>]
          IN /\ MayMutate(c)
             /\ U_mutated(c, U_remove_vertex(adj_list, v), RNone)

UGetEdges ==
    /\ kind = "undirected"
    /\ Queried([op |-> "get_edges", args |-> <<>>], RList(U_get_edges(adj_list)))

UDfs ==
    /\ kind = "undirected"
    /\ \E v_start \in U_query_ids, v_end \in Ends(U_query_ids) :
          Queried([op |-> "dfs", args |-> <<v_start, v_end>>],
                  RList(U_dfs(adj_list, v_start, v_end)))

UBfs ==
    /\ kind = "undirected"
    /\ \E v_start \in U_query_ids, v_end \in Ends(U_query_ids) :
          Queried([op |-> "bfs", args |-> <<v_start, v_end>>],
                  RList(U_bfs(adj_list, v_start, v_end)))

UCountConnectedComponents ==
    /\ kind = "undirected"
    /\ Queried([op |-> "count_connected_components", args |-> <<>>],
               RInt(U_count_connected_components(adj_list)))

UHasCycle ==
    /\ kind = "undirected"
    /\ Queried([op |-> "has_cycle", args |-> <<>>], U_has_cycle(adj_list))

\* the call is over: the caller has the result and is ready for the next call
Return ==
    /\ call.op # "idle"
    /\ run.at \in {"none", "return"}
    /\ call' = Idle
    /\ ret' = RNone
    /\ before' = Snapshot
    /\ run' = NoRun
    /\ UNCHANGED <<kind, mode, pc, v_count, adj_matrix, adj_list>>

Next ==
    \/ DAddVertex \/ DAddEdge \/ DRemoveEdge
    \/ DGetEdges \/ DIsValidPath \/ DDfs \/ DBfs \/ DHasCycle \/ DDijkstra
    \/ UAddVertex \/ UAddEdge \/ URemoveEdge \/ URemoveVertex
    \/ UGetEdges \/ UDfs \/ UBfs \/ UCountConnectedComponents \/ UHasCycle
    \/ Return

Spec == Init /\ [][Next]_vars

-----------------------------------------------------------------------------
(* The traversals followed one loop iteration at a time.  run.at is where
   the call stands: "while" and "for" at the test of that loop, "return"
   once the call has returned; run.iters counts the iterations begun;
   run.st holds the local variables of the call. *)

\* a free caller has calls followed on the graphs within MaxRunSize
RunWithin ==
    mode = "free" =>
        (IF kind = "directed" THEN D_size(D_self) ELSE U_size(adj_list)) <= MaxRunSize

\* the call c begins and comes to stand at `at` with locals st
Entered(c, at, st, r) ==
    /\ MayQuery
    /\ RunWithin
    /\ call' = c
    /\ ret' = r
    /\ before' = Snapshot
    /\ run' = [at |-> at, iters |-> 0, st |-> st]
    /\ UNCHANGED <<kind, mode, pc, v_count, adj_matrix, adj_list>>

\* one iteration of a loop runs and leaves the call at `at` with locals st
Iterated(at, st) ==
    /\ run' = [at |-> at, iters |-> run.iters + 1, st |-> st]
    /\ UNCHANGED <<kind, mode, pc, v_count, adj_matrix, adj_list, before, call, ret>>

\* an inner call returns to the loop of its caller
Resumed(at, st) ==
    /\ run' = [at |-> at, iters |-> run.iters, st |-> st]
    /\ UNCHANGED <<kind, mode, pc, v_count, adj_matrix, adj_list, before, call, ret>>

\* the call returns r
Returned(r) ==
    /\ run' = [run EXCEPT !.at = "return"]
    /\ ret' = r
    /\ UNCHANGED <<kind, mode, pc, v_count, adj_matrix, adj_list, before, call>>

\* the call op of a graph of kind k stands at `at`
At(k, op, at) == kind = k /\ call.op = op /\ run.at = at

\* DirectedGraph.dfs
DDfsCall ==
    /\ kind = "directed"
    /\ \E v_start \in D_ids, v_end \in Ends(D_ids) :
          LET c == [op |-> "dfs", args |-> <<v_start, v_end>>]
          IN IF ~D_in_range(D_self, v_start)
                THEN Entered(c, "return", <<>>, RList(<<>>))
                ELSE Entered(c, "while",
                             [stack |-> <<v_start>>, seen |-> {}, vertices |-> <<>>],
                             RNone)

DDfsStep ==
    /\ At("directed", "dfs", "while")
    /\ run.st.stack # <<>> /\ NotInSeen(call.args[2], run.st.seen)
    /\ Iterated("while", D_dfs_step(D_self, run.st))

DDfsReturn ==
    /\ At("directed", "dfs", "while")
    /\ ~(run.st.stack # <<>> /\ NotInSeen(call.args[2], run.st.seen))
    /\ Returned(RList(run.st.vertices))

\* DirectedGraph.bfs
DBfsCall ==
    /\ kind = "directed"
    /\ \E v_start \in D_ids, v_end \in Ends(D_ids) :
          LET c == [op |-> "bfs", args |-> <<v_start, v_end>>]
          IN IF ~D_in_range(D_self, v_start)
                THEN Entered(c, "return", <<>>, RList(<<>>))
                ELSE Entered(c, "while",
                             [queue |-> <<v_start>>, seen |-> {}, vertices |-> <<>>],
                             RNone)

DBfsStep ==
    /\ At("directed", "bfs", "while")
    /\ run.st.queue # <<>> /\ NotInSeen(call.args[2], run.st.seen)
    /\ Iterated("while", D_bfs_step(D_self, run.st))

DBfsReturn ==
    /\ At("directed", "bfs", "while")
    /\ ~(run.st.queue # <<>> /\ NotInSeen(call.args[2], run.st.seen))
    /\ Returned(RList(run.st.vertices))

\* DirectedGraph.has_cycle; run.st is [i, stack, visited, found], with i the
\* vertex the for loop is at and the rest the locals of detect_cycle(i)
DHasCycleCall ==
    /\ kind = "directed"
    /\ Entered([op |-> "has_cycle", args |-> <<>>], "for",
               [i |-> 0, stack |-> <<>>, visited |-> {}, found |-> FALSE], RNone)

\* the for loop calls detect_cycle(i)
DHasCycleFor ==
    /\ At("directed", "has_cycle", "for")
    /\ run.st.i < Len(adj_matrix)
    /\ Iterated("while", [i |-> run.st.i, stack |-> <<run.st.i>>,
                          visited |-> {}, found |-> FALSE])

\* the for loop is over: return False
DHasCycleReturn ==
    /\ At("directed", "has_cycle", "for")
    /\ run.st.i >= Len(adj_matrix)
    /\ Returned(RBool(FALSE))

DDetectCycleStep ==
    /\ At("directed", "has_cycle", "while")
    /\ run.st.stack # <<>> /\ ~run.st.found
    /\ LET st == D_detect_step(D_self, run.st.i, run.st)
       IN Iterated("while", [i |-> run.st.i, stack |-> st.stack,
                             visited |-> st.visited, found |-> st.found])

\* detect_cycle(i) returns True, and so does has_cycle
DDetectCycleTrue ==
    /\ At("directed", "has_cycle", "while")
    /\ run.st.found
    /\ Returned(RBool(TRUE))

\* detect_cycle(i) returns False: the for loop goes on to i + 1
DDetectCycleFalse ==
    /\ At("directed", "has_cycle", "while")
    /\ run.st.stack = <<>> /\ ~run.st.found
    /\ Resumed("for", [run.st EXCEPT !.i = @ + 1])

\* UndirectedGraph.dfs
UDfsCall ==
    /\ kind = "undirected"
    /\ \E v_start \in U_query_ids, v_end \in Ends(U_query_ids) :
          LET c == [op |-> "dfs", args |-> <<v_start, v_end>>]
          IN IF ~U_has(adj_list, v_start)
                THEN Entered(c, "return", <<>>, RList(<<>>))
                ELSE Entered(c, "while",
                             [stack |-> <<v_start>>, seen |-> {}, vertices |-> <<>>],
                             RNone)

UDfsStep ==
    /\ At("undirected", "dfs", "while")
    /\ Len(run.st.stack) > 0 /\ NotInSeen(call.args[2], run.st.seen)
    /\ Iterated("while", U_dfs_step(adj_list, run.st))

UDfsReturn ==
    /\ At("undirected", "dfs", "while")
    /\ ~(Len(run.st.stack) > 0 /\ NotInSeen(call.args[2], run.st.seen))
    /\ Returned(RList(run.st.vertices))

\* UndirectedGraph.bfs
UBfsCall ==
    /\ kind = "undirected"
    /\ \E v_start \in U_query_ids, v_end \in Ends(U_query_ids) :
          LET c == [op |-> "bfs", args |-> <<v_start, v_end>>]
          IN IF ~U_has(adj_list, v_start)
                THEN Entered(c, "return", <<>>, RList(<<>>))
                ELSE Entered(c, "while",
                             [queue |-> <<v_start>>, seen |-> {}, vertices |-> <<>>],
                             RNone)

UBfsStep ==
    /\ At("undirected", "bfs", "while")
    /\ Len(run.st.queue) > 0 /\ NotInSeen(call.args[2], run.st.seen)
    /\ Iterated("while", U_bfs_step(adj_list, run.st))

UBfsReturn ==
    /\ At("undirected", "bfs", "while")
    /\ ~(Len(run.st.queue) > 0 /\ NotInSeen(call.args[2], run.st.seen))
    /\ Returned(RList(run.st.vertices))

\* UndirectedGraph.count_connected_components; run.st is [k, count, found,
\* dfs], with k the place of key in adj_list, found the set `vertices` and
\* dfs the locals of self.dfs(key)
UCountCall ==
    /\ kind = "undirected"
    /\ Entered([op |-> "count_connected_components", args |-> <<>>], "for",
               [k |-> 1, count |-> 0, found |-> {},
                dfs |-> [stack |-> <<>>, seen |-> {}, vertices |-> <<>>]], RNone)

\* the for loop takes the next key, and calls self.dfs(key) for a key not
\* yet found
UCountFor ==
    /\ At("undirected", "count_connected_components", "for")
    /\ run.st.k <= Len(adj_list)
    /\ LET key == adj_list[run.st.k].key
       IN IF key \notin run.st.found
             THEN Iterated("while",
                           [run.st EXCEPT !.count = @ + 1,
                                          !.dfs = [stack |-> <<key>>, seen |-> {},
                                                   vertices |-> <<>>]])
             ELSE Iterated("for", [run.st EXCEPT !.k = @ + 1])

UCountReturn ==
    /\ At("undirected", "count_connected_components", "for")
    /\ run.st.k > Len(adj_list)
    /\ Returned(RInt(run.st.count))

UCountDfsStep ==
    /\ At("undirected", "count_connected_components", "while")
    /\ Len(run.st.dfs.stack) > 0
    /\ Iterated("while", [run.st EXCEPT !.dfs = U_dfs_step(adj_list, @)])

\* self.dfs(key) returns: its vertices are added and the for loop goes on
UCountDfsReturn ==
    /\ At("undirected", "count_connected_components", "while")
    /\ Len(run.st.dfs.stack) = 0
    /\ Resumed("for", [run.st EXCEPT !.k = @ + 1,
                                     !.found = @ \cup SeqToSet(run.st.dfs.vertices)])

NextRun ==
    \/ DAddVertex \/ DAddEdge \/ DRemoveEdge
    \/ UAddVertex \/ UAddEdge \/ URemoveEdge \/ URemoveVertex
    \/ DDfsCall \/ DDfsStep \/ DDfsReturn
    \/ DBfsCall \/ DBfsStep \/ DBfsReturn
    \/ DHasCycleCall \/ DHasCycleFor \/ DHasCycleReturn
    \/ DDetectCycleStep \/ DDetectCycleTrue \/ DDetectCycleFalse
    \/ UDfsCall \/ UDfsStep \/ UDfsReturn
    \/ UBfsCall \/ UBfsStep \/ UBfsReturn
    \/ UCountCall \/ UCountFor \/ UCountReturn
    \/ UCountDfsStep \/ UCountDfsReturn
    \/ Return

SpecRun == Init /\ [][NextRun]_vars

-----------------------------------------------------------------------------
(* Graph theory the claims are stated in *)

\* b is an out-neighbour of a in the DirectedGraph g
D_edge(g, a, b) ==
    /\ D_in_range(g, a) /\ D_in_range(g, b)
    /\ g.adj_matrix[a + 1][b + 1] # 0

D_vertices(g) == 0..(g.v_count - 1)

\* the vertices reached from the set S by following edges, S included
RECURSIVE D_closure(_, _)
D_closure(g, S) ==
    LET N == S \cup {b \in D_vertices(g) : \E a \in S : D_edge(g, a, b)}
    IN IF N = S THEN S ELSE D_closure(g, N)

\* some vertex is reached from one of its own out-neighbours
D_cyclic(g) ==
    \E v \in D_vertices(g) :
        v \in D_closure(g, {b \in D_vertices(g) : D_edge(g, v, b)})

\* a distance: a number or positive infinity
Fin(n) == [inf |-> FALSE, d |-> n]
PosInf == [inf |-> TRUE, d |-> 0]

DistLess(x, y) == ~x.inf /\ (y.inf \/ x.d < y.d)
DistPlus(x, w) == IF x.inf THEN PosInf ELSE Fin(x.d + w)

\* the least weight of a path from src to v of at most n edges (Bellman-Ford)
RECURSIVE D_dist(_, _, _, _)
D_dist(g, src, v, n) ==
    IF n = 0 THEN (IF v = src THEN Fin(0) ELSE PosInf)
    ELSE LET prev == [u \in D_vertices(g) |-> D_dist(g, src, u, n - 1)]
             via == {DistPlus(prev[u], g.adj_matrix[u + 1][v + 1]) :
                        u \in {x \in D_vertices(g) : D_edge(g, x, v)}}
             best == CHOOSE x \in via \cup {prev[v]} :
                         \A y \in via \cup {prev[v]} : ~DistLess(y, x)
         IN best

D_shortest(g, src) ==
    [k \in 1..g.v_count |-> D_dist(g, src, k - 1, g.v_count - 1)]

U_vertices(d) == {d[k].key : k \in 1..Len(d)}

\* u and v are joined by an edge of the UndirectedGraph d
U_adjacent(d, u, v) ==
    /\ U_has(d, u) /\ U_has(d, v)
    /\ PyIn(v, U_get(d, u)) \/ PyIn(u, U_get(d, v))

\* the vertices reached from S over edges other than the edge {x, y}
RECURSIVE U_closure(_, _, _, _)
U_closure(d, S, x, y) ==
    LET N == S \cup {b \in U_vertices(d) :
                        \E a \in S : U_adjacent(d, a, b) /\ {a, b} # {x, y}}
    IN IF N = S THEN S ELSE U_closure(d, N, x, y)

\* the connected component of v
U_component(d, v) == U_closure(d, {v}, v, v)

U_components(d) == {U_component(d, v) : v \in U_vertices(d)}

\* some edge joins two vertices that are connected without it
U_cyclic(d) ==
    \E u \in U_vertices(d), v \in U_vertices(d) :
        u # v /\ U_adjacent(d, u, v) /\ v \in U_closure(d, {u}, u, v)

\* the list up to and including the first x, for x in the list
UpTo(lst, x) ==
    SubSeq(lst, 1, CHOOSE k \in 1..Len(lst) :
                       lst[k] = x /\ \A h \in 1..(k - 1) : lst[h] # x)

Called(k, op) == kind = k /\ call.op = op

-----------------------------------------------------------------------------
(* The claims *)

\* C1: dijkstra(src), for src in range, returns the list whose entry v is
\* the least total weight of a path from src to v, 0 for src and positive
\* infinity for a vertex that src does not reach.
C1_DijkstraShortest ==
    (Called("directed", "dijkstra") /\ D_in_range(D_self, call.args[1]))
        => /\ ret.tag = "list"
           /\ ret.val = D_shortest(D_self, call.args[1])

\* C2: UndirectedGraph.has_cycle() returns True when the graph has a cycle
\* and False when it has none.
C2_UndirectedHasCycle ==
    Called("undirected", "has_cycle")
        => /\ ret.tag = "bool"
           /\ ret.val = U_cyclic(adj_list)

\* C3: DirectedGraph.has_cycle() returns True exactly when the graph has a
\* directed cycle; in the example of __main__ it returns False after the
\* three removals and True after the four additions that follow.
C3_DirectedHasCycle ==
    Called("directed", "has_cycle")
        => /\ ret.tag = "bool"
           /\ ret.val = D_cyclic(D_self)
           /\ (mode = "script" /\ pc = 3) => ret.val = FALSE
           /\ (mode = "script" /\ pc = Len(D_script)) => ret.val = TRUE

C3_Witness ==
    /\ Called("directed", "has_cycle")
    /\ mode = "script" /\ pc = Len(D_script)
    /\ ret.tag = "bool" /\ ret.val = TRUE

\* C4: count_connected_components() returns the number of connected
\* components of the graph, after every sequence of mutations and after each
\* of the 20 operations of the example of __main__.
C4_CountComponents ==
    Called("undirected", "count_connected_components")
        => /\ ret.tag = "int"
           /\ ret.val = Cardinality(U_components(adj_list))

C4_Witness ==
    /\ Called("undirected", "count_connected_components")
    /\ mode = "script" /\ pc = Len(U_script)
    /\ ret.tag = "int" /\ ret.val = 2

\* C5: the adjacency list of an UndirectedGraph is symmetric: every
\* neighbour u listed for a vertex v is a key and lists v.
C5_Symmetric ==
    kind = "undirected"
        => \A k \in 1..Len(adj_list) : \A i \in 1..Len(adj_list[k].val) :
              /\ U_has(adj_list, adj_list[k].val[i])
              /\ PyIn(adj_list[k].key, U_get(adj_list, adj_list[k].val[i]))

\* remove_vertex has removed a vertex that had two neighbours
C5_Witness ==
    /\ Called("undirected", "remove_vertex")
    /\ U_has(before.adj_list, call.args[1])
    /\ Len(U_get(before.adj_list, call.args[1])) = 2
    /\ Len(adj_list) = 2

\* the call is a malformed request to the DirectedGraph it was made on
D_malformed ==
    LET g == [v_count |-> before.v_count, adj_matrix |-> before.adj_matrix]
    IN \/ /\ call.op = "add_edge"
          /\ \/ call.args[3] < 1
             \/ call.args[1] = call.args[2]
             \/ ~D_in_range(g, call.args[1])
             \/ ~D_in_range(g, call.args[2])
       \/ /\ call.op = "remove_edge"
          /\ \/ ~D_in_range(g, call.args[1])
             \/ ~D_in_range(g, call.args[2])

\* the call is a malformed request to the UndirectedGraph it was made on
U_malformed ==
    LET d == before.adj_list
    IN \/ call.op = "add_vertex" /\ U_has(d, call.args[1])
       \/ /\ call.op = "add_edge"
          /\ \/ call.args[1] = call.args[2]
             \/ U_adjacent(d, call.args[1], call.args[2])
       \/ /\ call.op = "remove_edge"
          /\ \/ ~U_has(d, call.args[1])
             \/ ~U_has(d, call.args[2])
             \/ ~U_adjacent(d, call.args[1], call.args[2])
       \/ call.op = "remove_vertex" /\ ~U_has(d, call.args[1])

\* C6: a malformed mutation request raises nothing and leaves every field
\* of the graph as it was.
C6_MalformedNoOp ==
    /\ (kind = "directed" /\ D_malformed)
          => /\ ret = RNone
             /\ v_count = before.v_count
             /\ adj_matrix = before.adj_matrix
    /\ (kind = "undirected" /\ U_malformed)
          => /\ ret = RNone
             /\ adj_list = before.adj_list

\* add_edge with a weight below 1 on an edge that is there
C6_Witness ==
    /\ Called("directed", "add_edge")
    /\ call.args[3] < 1
    /\ D_edge(D_self, call.args[1], call.args[2])

\* C7: add_edge(a, b, w) with w >= 1 and a, b distinct and in range leaves
\* exactly one edge from a to b in get_edges(), of weight w, and every other
\* cell as it was; so add_edge(a, b, w2) after add_edge(a, b, w1), which
\* left the cell at w1, overwrites w1 and duplicates nothing.
C7_Overwrite ==
    (/\ Called("directed", "add_edge")
     /\ call.args[3] >= 1
     /\ call.args[1] # call.args[2]
     /\ D_in_range(D_self, call.args[1])
     /\ D_in_range(D_self, call.args[2]))
        => LET a == call.args[1]
               b == call.args[2]
               edges == D_get_edges(D_self)
           IN /\ Cardinality({k \in 1..Len(edges) :
                                 edges[k][1] = a /\ edges[k][2] = b}) = 1
              /\ PyIn(<<a, b, call.args[3]>>, edges)
              /\ v_count = before.v_count
              /\ \A i \in D_vertices(D_self), j \in D_vertices(D_self) :
                    <<i, j>> # <<a, b>>
                        => adj_matrix[i + 1][j + 1] = before.adj_matrix[i + 1][j + 1]

\* the edge was there with another weight
C7_Witness ==
    /\ Called("directed", "add_edge")
    /\ call.args[3] >= 1
    /\ D_edge(D_self, call.args[1], call.args[2])
    /\ before.adj_matrix[call.args[1] + 1][call.args[2] + 1]
           \notin {0, call.args[3]}
    /\ adj_matrix[call.args[1] + 1][call.args[2] + 1] = call.args[3]

\* C8: is_valid_path(path) returns a boolean for every list of integers:
\* True for the empty path, for one vertex whether it is in range, for two
\* or more whether every consecutive pair is an edge of the graph.
C8_ValidPath ==
    Called("directed", "is_valid_path")
        => LET path == call.args[1]
           IN /\ ret.tag = "bool"
              /\ ret.val =
                    IF Len(path) = 0 THEN TRUE
                    ELSE IF Len(path) = 1 THEN D_in_range(D_self, path[1])
                    ELSE \A i \in 2..Len(path) :
                            D_edge(D_self, path[i - 1], path[i])

\* what dfs or bfs of the call returns for v_end
Traversal(v_end) ==
    IF kind = "directed"
        THEN IF call.op = "dfs" THEN D_dfs(D_self, call.args[1], v_end)
                                ELSE D_bfs(D_self, call.args[1], v_end)
        ELSE IF call.op = "dfs" THEN U_dfs(adj_list, call.args[1], v_end)
                                ELSE U_bfs(adj_list, call.args[1], v_end)

StartPresent ==
    IF kind = "directed" THEN D_in_range(D_self, call.args[1])
                         ELSE U_has(adj_list, call.args[1])

\* C9: dfs and bfs with v_end return the traversal without v_end cut after
\* its first v_end, and the whole of it when v_end is not in it.
C9_EarlyEnd ==
    (/\ call.op \in {"dfs", "bfs"}
     /\ StartPresent
     /\ call.args[2] # <<>>)
        => LET full == Traversal(<<>>)
               end == call.args[2][1]
           IN /\ ret.tag = "list"
              /\ PyIn(end, full) =>
                    /\ ret.val = UpTo(full, end)
                    /\ ret.val[Len(ret.val)] = end
                    /\ \A k \in 1..(Len(ret.val) - 1) : ret.val[k] # end
              /\ ~PyIn(end, full) => ret.val = full

\* the traversal stopped at v_end with vertices left to visit
C9_Witness ==
    /\ call.op = "dfs"
    /\ StartPresent
    /\ call.args[2] # <<>>
    /\ Len(ret.val) >= 2
    /\ ret.val[Len(ret.val)] = call.args[2][1]
    /\ Len(ret.val) < Len(Traversal(<<>>))

\* C10: get_edges() of an UndirectedGraph lists every edge once, in one of
\* its two directions, and nothing else: no pair that is not an edge and no
\* pair of equal endpoints.
C10_EdgesOnce ==
    Called("undirected", "get_edges")
        => /\ ret.tag = "list"
           /\ \A u \in U_vertices(adj_list), v \in U_vertices(adj_list) :
                 U_adjacent(adj_list, u, v)
                     => Cardinality({k \in 1..Len(ret.val) :
                                        ret.val[k] \in {<<u, v>>, <<v, u>>}}) = 1
           /\ \A k \in 1..Len(ret.val) :
                 /\ U_adjacent(adj_list, ret.val[k][1], ret.val[k][2])
                 /\ ret.val[k][1] # ret.val[k][2]

\* the edges of a triangle have been listed
C10_Witness ==
    /\ Called("undirected", "get_edges")
    /\ Len(adj_list) = 3
    /\ Len(ret.val) = 3

-----------------------------------------------------------------------------
(* Traversal orders the claims are stated in, for the graph of the object *)

Vertices == IF kind = "directed" THEN D_vertices(D_self) ELSE U_vertices(adj_list)

\* b is a neighbour of a (an out-neighbour, in a DirectedGraph)
Edge(a, b) ==
    IF kind = "directed" THEN D_edge(D_self, a, b)
                         ELSE a # b /\ U_adjacent(adj_list, a, b)

\* the vertices reached from v, v included
Reach(v) ==
    IF kind = "directed" THEN D_closure(D_self, {v}) ELSE U_component(adj_list, v)

\* a finite set of numbers in ascending order
RECURSIVE Ascending(_)
Ascending(S) ==
    IF S = {} THEN <<>>
    ELSE LET m == CHOOSE x \in S : \A y \in S : x <= y
         IN <<m>> \o Ascending(S \ {m})

\* recursive depth-first traversal: Preorder(v, acc) visits v unless acc
\* holds it, then descends into its neighbours in ascending order
RECURSIVE Preorder(_, _), Descend(_, _)
Preorder(v, acc) ==
    IF PyIn(v, acc) THEN acc
    ELSE Descend(Ascending({b \in Vertices : Edge(v, b)}), Append(acc, v))
Descend(ns, acc) ==
    IF ns = <<>> THEN acc ELSE Descend(Tail(ns), Preorder(Head(ns), acc))

\* the vertices at most n edges away from v
RECURSIVE Within(_, _)
Within(v, n) ==
    IF n = 0 THEN {v}
    ELSE LET W == Within(v, n - 1)
         IN W \cup {b \in Vertices : \E a \in W : Edge(a, b)}

\* the number of edges of a shortest path from v to w, for w reached from v
Hops(v, w) == CHOOSE n \in 0..Cardinality(Vertices) :
                  w \in Within(v, n) /\ \A m \in 0..(n - 1) : w \notin Within(v, m)

NoRepeat(lst) == \A i \in 1..Len(lst), j \in 1..Len(lst) : lst[i] = lst[j] => i = j

\* the stack of dfs holds some vertex twice, now or in a later iteration
RECURSIVE D_stack_repeats(_, _)
D_stack_repeats(g, st) ==
    /\ st.stack # <<>>
    /\ ~NoRepeat(st.stack) \/ D_stack_repeats(g, D_dfs_step(g, st))

\* C11: dfs(start) without v_end, for start in the graph, returns the
\* preorder of the recursive depth-first traversal that descends into the
\* neighbours not yet visited in ascending order: it begins with start and
\* holds every vertex reached from start once, and no other vertex.
C11_DfsPreorder ==
    (/\ call.op = "dfs"
     /\ StartPresent
     /\ call.args[2] = <<>>)
        => /\ ret.tag = "list"
           /\ ret.val = Preorder(call.args[1], <<>>)
           /\ ret.val[1] = call.args[1]
           /\ NoRepeat(ret.val)
           /\ SeqToSet(ret.val) = Reach(call.args[1])

\* a dfs whose stack held a vertex twice
C11_Witness ==
    /\ Called("directed", "dfs")
    /\ StartPresent
    /\ call.args[2] = <<>>
    /\ Len(ret.val) >= 3
    /\ D_stack_repeats(D_self, [stack |-> <<call.args[1]>>, seen |-> {},
                                vertices |-> <<>>])

\* the first vertex of the list that has w as a neighbour
Discoverer(lst, w) ==
    lst[CHOOSE k \in 1..Len(lst) :
            Edge(lst[k], w) /\ \A h \in 1..(k - 1) : ~Edge(lst[h], w)]

\* C12: bfs(start) without v_end, for start in the graph, returns every
\* vertex reached from start once and no other vertex, start first, in
\* non-decreasing number of hops from start, the vertices first discovered
\* from the same vertex in ascending order.
C12_BfsLevels ==
    (/\ call.op = "bfs"
     /\ StartPresent
     /\ call.args[2] = <<>>)
        => LET start == call.args[1]
               lst == ret.val
           IN /\ ret.tag = "list"
              /\ lst[1] = start
              /\ NoRepeat(lst)
              /\ SeqToSet(lst) = Reach(start)
              /\ \A i \in 1..Len(lst), j \in 1..Len(lst) :
                    i <= j => Hops(start, lst[i]) <= Hops(start, lst[j])
              /\ \A i \in 2..Len(lst), j \in 2..Len(lst) :
                    (/\ Discoverer(lst, lst[i]) = Discoverer(lst, lst[j])
                     /\ lst[i] < lst[j])
                        => i < j

\* a bfs over three levels, two vertices discovered from the same vertex
C12_Witness ==
    /\ call.op = "bfs"
    /\ StartPresent
    /\ call.args[2] = <<>>
    /\ \E i \in 2..Len(ret.val), j \in 2..Len(ret.val) :
          /\ i < j
          /\ Discoverer(ret.val, ret.val[i]) = Discoverer(ret.val, ret.val[j])
    /\ \E i \in 1..Len(ret.val) : Hops(call.args[1], ret.val[i]) = 2

-----------------------------------------------------------------------------
(* Termination *)

\* the adjacency entries of the graph: the non-zero cells of adj_matrix, the
\* items of the lists of adj_list
Entries ==
    IF kind = "directed" THEN Len(D_get_edges(D_self))
                         ELSE 2 * Len(U_get_edges(adj_list))

\* the iterations the vertex and edge counts allow the call: a while loop
\* pops the start and what was pushed, an entry is pushed once; has_cycle
\* runs one such loop for each vertex, count_connected_components one for
\* each component, and both one for iteration for each vertex
IterBound ==
    CASE call.op = "has_cycle" ->
             Len(adj_matrix) + Len(adj_matrix) * (1 + Entries)
      [] call.op = "count_connected_components" ->
             Len(adj_list) + Len(adj_list) + Entries
      [] OTHER -> 1 + Entries

\* what the method called returns, computed in one go
Whole ==
    CASE call.op = "has_cycle" -> RBool(D_has_cycle(D_self))
      [] call.op = "count_connected_components" ->
             RInt(U_count_connected_components(adj_list))
      [] OTHER -> RList(Traversal(call.args[2]))

\* C13: dfs, bfs and has_cycle (with its detect_cycle calls) of a
\* DirectedGraph and dfs, bfs and count_connected_components of an
\* UndirectedGraph terminate on every graph, cyclic or not: a call begins no
\* more loop iterations than the vertex and edge counts allow, and past the
\* loops it has returned the value of the method.
C13_Terminates ==
    /\ run.at # "none" => run.iters <= IterBound
    /\ run.at = "return" => ret = Whole

\* a dfs over a cycle returned after popping vertices already seen
C13_Witness ==
    /\ Called("directed", "dfs") /\ run.at = "return"
    /\ call.args[2] = <<>>
    /\ D_cyclic(D_self)
    /\ run.iters > Len(ret.val)
    /\ Len(ret.val) >= 3

====
